---- MODULE Spec2Model ----
(***************************************************************************)
(* MediaOptimization (modules/video_coding/media_optimization.cc): the     *)
(* encoder rate controller.  It keeps the codec configuration, a history   *)
(* of frame arrival times and a frame-rate estimate, and drives a          *)
(* FrameDropper.  Every public method takes crit_sect_ for its whole body, *)
(* so each method is one atomic action in Spec and SpecFill.  SpecConc     *)
(* runs the methods statement by statement on two threads and is checked   *)
(* to take only steps of those atomic actions.                             *)
(*                                                                         *)
(* Floats are modelled as exact rationals <<n, d>> in lowest terms: the    *)
(* code only compares the estimate with 0, rounds it half-up and passes it *)
(* on, and for the magnitudes reached (at most 88 frames over at least     *)
(* 1 ms) the float rounding error is far below the distance of any         *)
(* quotient to the nearest half-integer.                                   *)
(***************************************************************************)
EXTENDS Integers, Sequences, FiniteSets, TLC

\* ------------------------------------------------------------------ bounds
\* Arrival events (DropFrame calls) explored since construction or Reset.
MaxArrivals == 3

\* Arrivals in the opening burst of SpecFill (all at the initial clock value),
\* and arrivals in all: the burst nearly fills the history, the rest overflow it.
FillBurst == 87
MaxFill == 92

\* Clock values of SpecFill: initial values, then values 1 ms, 34 ms and more
\* than 2000 ms later.
FillStarts == {0, 5}
FillTimes == {0, 5, 6, 39, 2006, 2007}

\* Clock values the time source may return (monotonic milliseconds): 0, a
\* steady 33 ms cadence, and two late values that are exactly 2000 ms and
\* more than 2000 ms after the arrivals at 66 and 33.
Times == {0, 33, 66, 2066, 2067}

\* Arguments explored for the configuration calls.
MaxBitRates == {-1, 0, 400000}
TargetBitrates == {300000, 600000}
FrameRates == {30}
EncodedLengths == {0, 1200}
FrameTypes == {"kVideoFrameKey", "kVideoFrameDelta"}

\* --------------------------------------------------------------- constants
\* media_optimization.h: size of incoming_frame_times_.
kFrameCountHistorySize == 90
\* media_optimization.h: "Don't use data older than 2 s".
kFrameHistoryWinMs == 2000
VCM_OK == 0

\* ------------------------------------------------------------------- state
VARIABLES
  clock,                  \* last value returned by clock_->TimeInMilliseconds()
  max_bit_rate_,          \* int
  user_frame_rate_,       \* float, as a rational
  video_target_bitrate_,  \* bits per second
  incoming_frame_rate_,   \* float, as a rational
  incoming_frame_times_,  \* int64_t[kFrameCountHistorySize], index 0 newest
  dropper_enabled,        \* frame_dropper_: its enable flag
  calls,                  \* calls made into frame_dropper_ by the last method
  lastOp,                 \* the last public method that ran
  args,                   \* its arguments (for DropFrame: the arrival time)
  ret,                    \* its return value
  arrivals,               \* arrival times since construction/Reset, newest first
  targetSetBy,            \* the method that last wrote video_target_bitrate_
  crit_sect_,             \* the threads holding the lock
  pc,                     \* per thread: the statement it executes next
  frame,                  \* per thread: the running method's arguments and locals
  mem                     \* the members as the running threads see them

\* The members and the last method's observable outcome, as of the last
\* return of a public method.
committed == <<clock, max_bit_rate_, user_frame_rate_, video_target_bitrate_,
               incoming_frame_rate_, incoming_frame_times_, dropper_enabled,
               calls, lastOp, args, ret, arrivals, targetSetBy>>

vars == <<clock, max_bit_rate_, user_frame_rate_, video_target_bitrate_,
          incoming_frame_rate_, incoming_frame_times_, dropper_enabled,
          calls, lastOp, args, ret, arrivals, targetSetBy,
          crit_sect_, pc, frame, mem>>

\* ------------------------------------------------------------ float helpers
RECURSIVE GCD(_, _)
GCD(a, b) == IF b = 0 THEN a ELSE GCD(b, a % b)

\* The quotient n / d (n >= 0, d > 0) in lowest terms.
Rat(n, d) == LET g == GCD(n, d) IN <<n \div g, d \div g>>

Zero == <<0, 1>>

Slots == 0 .. (kFrameCountHistorySize - 1)

\* memset(incoming_frame_times_, -1, sizeof(incoming_frame_times_))
ClearedTimes == [i \in Slots |-> -1]

\* --------------------------------------------------------- pure operators
\* SetTargetRates, lines 68-73: cap the target to the codec maximum.
CapTargetUncapped(max_bit_rate, target_bitrate) == target_bitrate

CapTargetNoSignCheck(max_bit_rate, target_bitrate) ==
  IF target_bitrate > max_bit_rate THEN max_bit_rate ELSE target_bitrate

CapTarget(max_bit_rate, target_bitrate) ==
  IF max_bit_rate > 0 /\ target_bitrate > max_bit_rate
    THEN max_bit_rate
    ELSE target_bitrate

\* static_cast<float>(bitrate) / 1000.0f
Kbps(bitrate) == Rat(bitrate, 1000)

\* SetTargetRates, lines 78-82: the estimate, or the configured rate when the
\* estimate is exactly 0.
SetRatesFrameRateUser(frame_rate, user_frame_rate) == user_frame_rate

SetRatesFrameRate(frame_rate, user_frame_rate) ==
  IF frame_rate = Zero THEN user_frame_rate ELSE frame_rate

\* UpdateIncomingFrameRate, lines 127-135: shift unless slot 0 holds 0, then
\* store now in slot 0.
ShiftTimesNewestLast(times, now) ==
  [i \in Slots |-> IF i = kFrameCountHistorySize - 1 THEN now ELSE times[i + 1]]

ShiftTimes(times, now) ==
  IF times[0] = 0
    THEN [times EXCEPT ![0] = now]
    ELSE [i \in Slots |-> IF i = 0 THEN now ELSE times[i - 1]]

\* ProcessIncomingFrameRate, lines 144-146: the loop's break condition.
ScanBreaksAtBoundary(times, now, num) ==
  \/ times[num] <= 0
  \/ now - times[num] >= kFrameHistoryWinMs

ScanBreaks(times, now, num) ==
  \/ times[num] <= 0
  \/ now - times[num] > kFrameHistoryWinMs

\* ProcessIncomingFrameRate, lines 143-151: the value of num after the loop.
ScanNum(times, now) ==
  LET stops == {n \in 1 .. (kFrameCountHistorySize - 2) : ScanBreaks(times, now, n)}
  IN  IF stops = {}
        THEN kFrameCountHistorySize - 1
        ELSE CHOOSE n \in stops : \A m \in stops : n <= m

\* ProcessIncomingFrameRate, lines 140-160: the new incoming_frame_rate_.
ProcessIncomingFrameRate(times, rate, now) ==
  LET num == ScanNum(times, now)
      nr_of_frames == num - 1
      diff == times[0] - times[num - 1]
  IN  IF num > 1
        THEN IF diff > 0 THEN Rat(nr_of_frames * 1000, diff) ELSE Zero
        ELSE rate

\* InputFrameRateInternal, lines 96-97:
\* static_cast<uint32_t>(std::min<float>(UINT32_MAX, rate + 0.5f)), that is
\* floor(rate + 1/2).  The estimate is at most 88 frames in 1 ms (88000), so
\* the std::min with UINT32_MAX never selects its first argument.
RoundRateTruncated(rate) == rate[1] \div rate[2]

RoundRate(rate) == (2 * rate[1] + rate[2]) \div (2 * rate[2])

\* Reset, line 37: the history after Reset.
ResetTimesKept(times) == times

ResetTimes(times) == ClearedTimes

\* SetEncodingDataInternal, lines 59-61: its calls into frame_dropper_.
EncodingCallsSwapped(frame_rate, target_bitrate) ==
  << [op |-> "Reset"],
     [op |-> "SetRates", kbps |-> Kbps(frame_rate), fps |-> Rat(target_bitrate, 1)] >>

EncodingCalls(frame_rate, target_bitrate) ==
  << [op |-> "Reset"],
     [op |-> "SetRates", kbps |-> Kbps(target_bitrate), fps |-> Rat(frame_rate, 1)] >>

\* UpdateWithEncodedData, lines 105-108: its calls into frame_dropper_.
FillCallsAlways(encoded_length, frame_type) ==
  << [op |-> "Fill", size |-> encoded_length,
      delta |-> (frame_type # "kVideoFrameKey")] >>

FillCalls(encoded_length, frame_type) ==
  IF encoded_length > 0
    THEN << [op |-> "Fill", size |-> encoded_length,
             delta |-> (frame_type # "kVideoFrameKey")] >>
    ELSE << >>

\* DropFrame, line 121: (uint32_t)(InputFrameRateInternal() + 0.5f).
LeakRate(framerate) == (2 * framerate + 1) \div 2

\* DropFrame, lines 121-122: Leak(rounded estimate), then DropFrame().
DropFrameCallsSwapped(rate, drop) ==
  << [op |-> "DropFrame", result |-> drop],
     [op |-> "Leak", rate |-> rate] >>

DropFrameCalls(rate, drop) ==
  << [op |-> "Leak", rate |-> rate],
     [op |-> "DropFrame", result |-> drop] >>

\* FrameDropper::DropFrame(): the decisions the collaborator may give.
DropDecisions(enabled) == IF enabled THEN BOOLEAN ELSE {FALSE}

\* Readings of the monotonic clock at or after t.
ClockFrom(t) == {u \in Times : u >= t}

\* ----------------------------------------------------------------- threads
\* The capture/encode path and the network/control path.
Threads == {"capture", "control"}

\* The members as a record.
Members ==
  [clock |-> clock,
   max_bit_rate_ |-> max_bit_rate_,
   user_frame_rate_ |-> user_frame_rate_,
   video_target_bitrate_ |-> video_target_bitrate_,
   incoming_frame_rate_ |-> incoming_frame_rate_,
   incoming_frame_times_ |-> incoming_frame_times_,
   dropper_enabled |-> dropper_enabled,
   arrivals |-> arrivals,
   targetSetBy |-> targetSetBy]

\* The frame of a thread that is in no method.
NoFrame ==
  [op |-> "none", args |-> << >>, enable |-> FALSE, callee |-> "none",
   internal |-> << >>, encoded_length |-> 0, now |-> 0, rounded |-> 0,
   calls |-> << >>, ret |-> << >>, stack |-> << >>]

\* After construction no thread is inside a method.
NoCalls ==
  /\ crit_sect_ = {}
  /\ pc = [t \in Threads |-> "idle"]
  /\ frame = [t \in Threads |-> NoFrame]
  /\ mem = Members

Quiet == UNCHANGED <<crit_sect_, pc, frame, mem>>

\* ------------------------------------------------------------------ actions
\* MediaOptimization::MediaOptimization(Clock*)
Init ==
  /\ clock = 0
  /\ max_bit_rate_ = 0
  /\ user_frame_rate_ = Zero
  /\ video_target_bitrate_ = 0
  /\ incoming_frame_rate_ = Zero
  /\ incoming_frame_times_ = ClearedTimes
  /\ dropper_enabled = TRUE
  /\ calls = << >>
  /\ lastOp = "MediaOptimization"
  /\ args = << >>
  /\ ret = << >>
  /\ arrivals = << >>
  /\ targetSetBy = "MediaOptimization"
  /\ NoCalls

\* void MediaOptimization::Reset()
Reset ==
  /\ max_bit_rate_' = 0
  /\ incoming_frame_times_' = ResetTimes(incoming_frame_times_)
  /\ incoming_frame_rate_' = Zero
  /\ video_target_bitrate_' = 0
  /\ user_frame_rate_' = Zero
  /\ calls' = EncodingCalls(0, 0) \o
              << [op |-> "Reset"],
                 [op |-> "SetRates", kbps |-> Zero, fps |-> Zero] >>
  /\ lastOp' = "Reset"
  /\ args' = << >>
  /\ ret' = << >>
  /\ arrivals' = << >>
  /\ targetSetBy' = "Reset"
  /\ UNCHANGED <<clock, dropper_enabled>>

\* void MediaOptimization::SetEncodingData(max_bit_rate, target_bitrate, frame_rate)
SetEncodingData(max_bit_rate, target_bitrate, frame_rate) ==
  /\ max_bit_rate_' = max_bit_rate
  /\ video_target_bitrate_' = target_bitrate
  /\ calls' = EncodingCalls(frame_rate, target_bitrate)
  /\ user_frame_rate_' = Rat(frame_rate, 1)
  /\ lastOp' = "SetEncodingData"
  /\ args' = <<max_bit_rate, target_bitrate, frame_rate>>
  /\ ret' = << >>
  /\ targetSetBy' = "SetEncodingData"
  /\ UNCHANGED <<clock, incoming_frame_rate_, incoming_frame_times_,
                 dropper_enabled, arrivals>>

SetTargetRatesRateDependent(target_bitrate) ==
  LET capped == IF incoming_frame_rate_ = Zero
                  THEN CapTarget(max_bit_rate_, target_bitrate)
                  ELSE target_bitrate
  IN  /\ video_target_bitrate_' = capped
      /\ calls' = << [op |-> "SetRates", kbps |-> Kbps(capped),
                      fps |-> SetRatesFrameRate(incoming_frame_rate_,
                                                user_frame_rate_)] >>
      /\ lastOp' = "SetTargetRates"
      /\ args' = <<target_bitrate>>
      /\ ret' = capped
      /\ targetSetBy' = "SetTargetRates"
      /\ UNCHANGED <<clock, max_bit_rate_, user_frame_rate_,
                     incoming_frame_rate_, incoming_frame_times_,
                     dropper_enabled, arrivals>>

\* uint32_t MediaOptimization::SetTargetRates(target_bitrate)
SetTargetRates(target_bitrate) ==
  LET capped == CapTarget(max_bit_rate_, target_bitrate)
  IN  /\ video_target_bitrate_' = capped
      /\ calls' = << [op |-> "SetRates", kbps |-> Kbps(capped),
                      fps |-> SetRatesFrameRate(incoming_frame_rate_,
                                                user_frame_rate_)] >>
      /\ lastOp' = "SetTargetRates"
      /\ args' = <<target_bitrate>>
      /\ ret' = capped
      /\ targetSetBy' = "SetTargetRates"
      /\ UNCHANGED <<clock, max_bit_rate_, user_frame_rate_,
                     incoming_frame_rate_, incoming_frame_times_,
                     dropper_enabled, arrivals>>

InputFrameRateRecording ==
  \E now \in ClockFrom(clock) :
    LET times == ShiftTimes(incoming_frame_times_, now)
        rate == ProcessIncomingFrameRate(times, incoming_frame_rate_, now)
    IN  /\ clock' = now
        /\ incoming_frame_times_' = times
        /\ incoming_frame_rate_' = rate
        /\ calls' = << >>
        /\ lastOp' = "InputFrameRate"
        /\ args' = << >>
        /\ ret' = RoundRate(rate)
        /\ UNCHANGED <<max_bit_rate_, user_frame_rate_, video_target_bitrate_,
                       dropper_enabled, arrivals, targetSetBy>>

\* uint32_t MediaOptimization::InputFrameRate()
\* (the clock reads now)
InputFrameRateAt(now) ==
  LET rate == ProcessIncomingFrameRate(incoming_frame_times_,
                                       incoming_frame_rate_, now)
  IN  /\ clock' = now
      /\ incoming_frame_rate_' = rate
      /\ calls' = << >>
      /\ lastOp' = "InputFrameRate"
      /\ args' = << >>
      /\ ret' = RoundRate(rate)
      /\ UNCHANGED <<max_bit_rate_, user_frame_rate_, video_target_bitrate_,
                     incoming_frame_times_, dropper_enabled, arrivals,
                     targetSetBy>>

InputFrameRate == \E now \in ClockFrom(clock) : InputFrameRateAt(now)

\* int32_t MediaOptimization::UpdateWithEncodedData(const EncodedImage&)
UpdateWithEncodedData(encoded_length, frame_type) ==
  /\ calls' = FillCalls(encoded_length, frame_type)
  /\ lastOp' = "UpdateWithEncodedData"
  /\ args' = <<encoded_length, frame_type>>
  /\ ret' = VCM_OK
  /\ UNCHANGED <<clock, max_bit_rate_, user_frame_rate_, video_target_bitrate_,
                 incoming_frame_rate_, incoming_frame_times_, dropper_enabled,
                 arrivals, targetSetBy>>

EnableFrameDropperInverted(enable) ==
  /\ dropper_enabled' = ~enable
  /\ calls' = << [op |-> "Enable", enable |-> ~enable] >>
  /\ lastOp' = "EnableFrameDropper"
  /\ args' = <<enable>>
  /\ ret' = << >>
  /\ UNCHANGED <<clock, max_bit_rate_, user_frame_rate_, video_target_bitrate_,
                 incoming_frame_rate_, incoming_frame_times_, arrivals,
                 targetSetBy>>

\* void MediaOptimization::EnableFrameDropper(bool enable)
EnableFrameDropper(enable) ==
  /\ dropper_enabled' = enable
  /\ calls' = << [op |-> "Enable", enable |-> enable] >>
  /\ lastOp' = "EnableFrameDropper"
  /\ args' = <<enable>>
  /\ ret' = << >>
  /\ UNCHANGED <<clock, max_bit_rate_, user_frame_rate_, video_target_bitrate_,
                 incoming_frame_rate_, incoming_frame_times_, arrivals,
                 targetSetBy>>

\* bool MediaOptimization::DropFrame(): UpdateIncomingFrameRate reads the clock
\* (now), InputFrameRateInternal reads it again (later), then Leak and DropFrame.
\* The clock reads now, then later; the collaborator answers drop.
DropFrameAt(now, later, drop) ==
  LET times == ShiftTimes(incoming_frame_times_, now)
      rate1 == ProcessIncomingFrameRate(times, incoming_frame_rate_, now)
      rate2 == ProcessIncomingFrameRate(times, rate1, later)
  IN  /\ clock' = later
      /\ incoming_frame_times_' = times
      /\ incoming_frame_rate_' = rate2
      /\ calls' = DropFrameCalls(LeakRate(RoundRate(rate2)), drop)
      /\ lastOp' = "DropFrame"
      /\ args' = <<now>>
      /\ ret' = drop
      /\ arrivals' = <<now>> \o arrivals
      /\ UNCHANGED <<max_bit_rate_, user_frame_rate_,
                     video_target_bitrate_, dropper_enabled, targetSetBy>>

DropFrame ==
  /\ Len(arrivals) < MaxArrivals
  /\ \E now \in ClockFrom(clock) : \E later \in ClockFrom(now) :
     \E drop \in DropDecisions(dropper_enabled) :
       DropFrameAt(now, later, drop)

\* Methods called one at a time: no thread is ever inside a method.
Next ==
  \/ Reset /\ Quiet
  \/ \E m \in MaxBitRates, t \in TargetBitrates, f \in FrameRates :
       SetEncodingData(m, t, f) /\ Quiet
  \/ \E t \in TargetBitrates : SetTargetRates(t) /\ Quiet
  \/ InputFrameRate /\ Quiet
  \/ \E n \in EncodedLengths, ft \in FrameTypes :
       UpdateWithEncodedData(n, ft) /\ Quiet
  \/ \E e \in BOOLEAN : EnableFrameDropper(e) /\ Quiet
  \/ DropFrame /\ Quiet

Spec == Init /\ [][Next]_vars

\* ---------------------------------------------------------------- SpecFill
\* The history at capacity: a burst of FillBurst arrivals at the initial clock
\* value, then arrivals and queries at later clock values, MaxFill arrivals
\* in all.
FillClockFrom(t) == {u \in FillTimes : u >= t}

InitFill ==
  /\ clock \in FillStarts
  /\ max_bit_rate_ = 0
  /\ user_frame_rate_ = Zero
  /\ video_target_bitrate_ = 0
  /\ incoming_frame_rate_ = Zero
  /\ incoming_frame_times_ = ClearedTimes
  /\ dropper_enabled = TRUE
  /\ calls = << >>
  /\ lastOp = "MediaOptimization"
  /\ args = << >>
  /\ ret = << >>
  /\ arrivals = << >>
  /\ targetSetBy = "MediaOptimization"
  /\ NoCalls

BurstDropFrame ==
  /\ Len(arrivals) < FillBurst
  /\ \E drop \in DropDecisions(dropper_enabled) :
       DropFrameAt(clock, clock, drop)

FillDropFrame ==
  /\ Len(arrivals) >= FillBurst
  /\ Len(arrivals) < MaxFill
  /\ \E now \in FillClockFrom(clock) : \E later \in FillClockFrom(now) :
     \E drop \in DropDecisions(dropper_enabled) :
       DropFrameAt(now, later, drop)

FillInputFrameRate ==
  /\ Len(arrivals) >= FillBurst
  /\ \E now \in FillClockFrom(clock) : InputFrameRateAt(now)

FillReset ==
  /\ Len(arrivals) >= FillBurst
  /\ Reset

NextFill ==
  \/ BurstDropFrame /\ Quiet
  \/ FillDropFrame /\ Quiet
  \/ FillInputFrameRate /\ Quiet
  \/ FillReset /\ Quiet

SpecFill == InitFill /\ [][NextFill]_vars

\* ---------------------------------------------------------------- SpecConc
\* Two threads run the public methods statement by statement: the capture
\* path calls DropFrame, UpdateWithEncodedData and InputFrameRate, the control
\* path Reset, SetEncodingData and SetTargetRates, and either of them
\* EnableFrameDropper.  A label names the method and the source line of the
\* statement a thread executes next.

\* Arrivals explored in SpecConc since construction or Reset.
MaxConcArrivals == 2

\* Arrivals explored in FairSpecConc: which statements a method executes and
\* where it takes the lock does not depend on the history.
MaxFairArrivals == 1

\* Inputs of SpecConc: subsets of the inputs of Spec.
ConcTimes == {33, 66}
ConcMaxBitRates == {400000}
ConcTargetBitrates == {600000}
ConcEncodedLengths == {1200}
ConcFrameTypes == {"kVideoFrameDelta"}

ConcClockFrom(t) == {u \in ConcTimes : u >= t}

PublicMethods ==
  {"Reset", "SetEncodingData", "SetTargetRates", "InputFrameRate",
   "UpdateWithEncodedData", "EnableFrameDropper", "DropFrame"}

\* The methods whose body starts with rtc::CritScope lock(&crit_sect_).
LockedExceptInputFrameRate(method) ==
  method \in PublicMethods \ {"InputFrameRate"}

Locked(method) == method \in PublicMethods

\* The method called at each call site.
CalleeResetPublic(site) ==
  CASE site = "Reset36" -> "SetEncodingData"
    [] site = "SetEncodingData49" -> "SetEncodingDataInternal"
    [] site = "InputFrameRate91" -> "InputFrameRateInternal"
    [] site = "InputFrameRateInternal95" -> "ProcessIncomingFrameRate"
    [] site = "DropFrame119" -> "UpdateIncomingFrameRate"
    [] site = "DropFrame121" -> "InputFrameRateInternal"
    [] site = "UpdateIncomingFrameRate136" -> "ProcessIncomingFrameRate"

Callee(site) ==
  CASE site = "Reset36" -> "SetEncodingDataInternal"
    [] site = "SetEncodingData49" -> "SetEncodingDataInternal"
    [] site = "InputFrameRate91" -> "InputFrameRateInternal"
    [] site = "InputFrameRateInternal95" -> "ProcessIncomingFrameRate"
    [] site = "DropFrame119" -> "UpdateIncomingFrameRate"
    [] site = "DropFrame121" -> "InputFrameRateInternal"
    [] site = "UpdateIncomingFrameRate136" -> "ProcessIncomingFrameRate"

CallSites ==
  {"Reset36", "SetEncodingData49", "InputFrameRate91",
   "InputFrameRateInternal95", "DropFrame119", "DropFrame121",
   "UpdateIncomingFrameRate136"}

\* The first statement of each method: in a public method the CritScope,
\* except in UpdateWithEncodedData, which first reads the length of its
\* argument.
Entry(method) ==
  CASE method = "Reset" -> "Reset35"
    [] method = "SetEncodingData" -> "SetEncodingData48"
    [] method = "SetEncodingDataInternal" -> "SetEncodingDataInternal57"
    [] method = "SetTargetRates" -> "SetTargetRates66"
    [] method = "InputFrameRate" -> "InputFrameRate90"
    [] method = "InputFrameRateInternal" -> "InputFrameRateInternal95"
    [] method = "UpdateWithEncodedData" -> "UpdateWithEncodedData103"
    [] method = "EnableFrameDropper" -> "EnableFrameDropper113"
    [] method = "DropFrame" -> "DropFrame118"
    [] method = "UpdateIncomingFrameRate" -> "UpdateIncomingFrameRate126"
    [] method = "ProcessIncomingFrameRate" -> "ProcessIncomingFrameRate143"

\* The statements rtc::CritScope lock(&crit_sect_).
LockSites ==
  {"Reset35", "SetEncodingData48", "SetTargetRates66", "InputFrameRate90",
   "UpdateWithEncodedData104", "EnableFrameDropper113", "DropFrame118"}

\* The method whose CritScope a lock site is.
LockSiteOf(site) ==
  CASE site = "Reset35" -> "Reset"
    [] site = "SetEncodingData48" -> "SetEncodingData"
    [] site = "SetTargetRates66" -> "SetTargetRates"
    [] site = "InputFrameRate90" -> "InputFrameRate"
    [] site = "UpdateWithEncodedData104" -> "UpdateWithEncodedData"
    [] site = "EnableFrameDropper113" -> "EnableFrameDropper"
    [] site = "DropFrame118" -> "DropFrame"

\* The statement after each CritScope.
AfterLock(site) ==
  CASE site = "Reset35" -> "Reset36"
    [] site = "SetEncodingData48" -> "SetEncodingData49"
    [] site = "SetTargetRates66" -> "SetTargetRates68"
    [] site = "InputFrameRate90" -> "InputFrameRate91"
    [] site = "UpdateWithEncodedData104" -> "UpdateWithEncodedData105"
    [] site = "EnableFrameDropper113" -> "EnableFrameDropper114"
    [] site = "DropFrame118" -> "DropFrame119"

\* A thread past the CritScope of a public method and before its return has
\* taken effect: where the members and frame_dropper_ are accessed.
InBody(t) ==
  pc[t] \notin ({"idle", "UpdateWithEncodedData103"} \cup LockSites)

\* Going on to label next: the outcome of a statement that is not a call.
Goto(next, m, f) == [pc |-> next, mem |-> m, frame |-> f]

\* Returning from a method to the caller's next statement.
Leave(m, f) ==
  [pc |-> Head(f.stack), mem |-> m, frame |-> [f EXCEPT !.stack = Tail(@)]]

\* Calling the method of call site `site`, to continue at `back`.
Call(site, back, m, f) ==
  LET callee == Callee(site)
      g == [f EXCEPT !.callee = callee, !.stack = <<back>> \o @]
  IN  [pc |-> Entry(callee), mem |-> m, frame |-> g]

\* The statement at label, run on members m with frame f; the clock reads
\* now and the collaborator answers drop where the statement asks them.
Exec(label, m, f, now, drop) ==
  CASE label = "Reset36" ->
         Call(label, "Reset37", m, [f EXCEPT !.internal = <<0, 0, 0>>])
    [] label = "Reset37" ->
         Goto("Reset38",
              [m EXCEPT !.incoming_frame_times_ = ResetTimes(@),
                        !.arrivals = << >>], f)
    [] label = "Reset38" ->
         Goto("Reset39", [m EXCEPT !.incoming_frame_rate_ = Zero], f)
    [] label = "Reset39" ->
         Goto("Reset41", m,
              [f EXCEPT !.calls = @ \o
                 << [op |-> "Reset"],
                    [op |-> "SetRates", kbps |-> Zero, fps |-> Zero] >>])
    [] label = "Reset41" ->
         Goto("Reset42",
              [m EXCEPT !.video_target_bitrate_ = 0, !.targetSetBy = f.op], f)
    [] label = "Reset42" ->
         Leave([m EXCEPT !.user_frame_rate_ = Zero], f)
    [] label = "SetEncodingData49" ->
         Call(label, "SetEncodingData50", m,
              [f EXCEPT !.internal = <<f.args[1], f.args[3], f.args[2]>>])
    [] label = "SetEncodingData50" -> Leave(m, f)
    [] label = "SetEncodingDataInternal57" ->
         Goto("SetEncodingDataInternal58",
              [m EXCEPT !.max_bit_rate_ = f.internal[1]], f)
    [] label = "SetEncodingDataInternal58" ->
         Goto("SetEncodingDataInternal59",
              [m EXCEPT !.video_target_bitrate_ = f.internal[3],
                        !.targetSetBy = f.op], f)
    [] label = "SetEncodingDataInternal59" ->
         Goto("SetEncodingDataInternal62", m,
              [f EXCEPT !.calls = @ \o EncodingCalls(f.internal[2],
                                                     f.internal[3])])
    [] label = "SetEncodingDataInternal62" ->
         Leave([m EXCEPT !.user_frame_rate_ = Rat(f.internal[2], 1)], f)
    [] label = "SetTargetRates68" ->
         Goto("SetTargetRates71",
              [m EXCEPT !.video_target_bitrate_ = f.args[1],
                        !.targetSetBy = f.op], f)
    [] label = "SetTargetRates71" ->
         Goto("SetTargetRates76",
              [m EXCEPT !.video_target_bitrate_ =
                           CapTarget(m.max_bit_rate_, @)], f)
    [] label = "SetTargetRates76" ->
         Goto("SetTargetRates86", m,
              [f EXCEPT !.calls = @ \o
                 << [op |-> "SetRates",
                     kbps |-> Kbps(m.video_target_bitrate_),
                     fps |-> SetRatesFrameRate(m.incoming_frame_rate_,
                                               m.user_frame_rate_)] >>])
    [] label = "SetTargetRates86" ->
         Leave(m, [f EXCEPT !.ret = m.video_target_bitrate_])
    [] label = "InputFrameRate91" ->
         Call(label, "InputFrameRate92", m, f)
    [] label = "InputFrameRate92" ->
         Leave(m, [f EXCEPT !.ret = f.rounded])
    [] label = "InputFrameRateInternal95" ->
         Call(label, "InputFrameRateInternal96",
              [m EXCEPT !.clock = now], [f EXCEPT !.now = now])
    [] label = "InputFrameRateInternal96" ->
         Leave(m, [f EXCEPT !.rounded = RoundRate(m.incoming_frame_rate_)])
    [] label = "UpdateWithEncodedData103" ->
         Goto("UpdateWithEncodedData104", m,
              [f EXCEPT !.encoded_length = f.args[1]])
    [] label = "UpdateWithEncodedData105" ->
         Leave(m, [f EXCEPT !.calls = @ \o FillCalls(f.encoded_length,
                                                     f.args[2]),
                            !.ret = VCM_OK])
    [] label = "EnableFrameDropper114" ->
         Leave([m EXCEPT !.dropper_enabled = f.enable],
               [f EXCEPT !.calls = @ \o
                  << [op |-> "Enable", enable |-> f.enable] >>])
    [] label = "DropFrame119" ->
         Call(label, "DropFrame121", m, f)
    [] label = "DropFrame121" ->
         Call(label, "DropFrame122", m, f)
    [] label = "DropFrame122" ->
         Leave(m, [f EXCEPT !.calls = @ \o
                               DropFrameCalls(LeakRate(f.rounded), drop),
                            !.ret = drop])
    [] label = "UpdateIncomingFrameRate126" ->
         Goto("UpdateIncomingFrameRate127",
              [m EXCEPT !.clock = now],
              [f EXCEPT !.now = now, !.args = <<now>>])
    [] label = "UpdateIncomingFrameRate127" ->
         Goto("UpdateIncomingFrameRate136",
              [m EXCEPT !.incoming_frame_times_ = ShiftTimes(@, f.now),
                        !.arrivals = <<f.now>> \o @], f)
    [] label = "UpdateIncomingFrameRate136" ->
         Call(label, "UpdateIncomingFrameRate137", m, f)
    [] label = "UpdateIncomingFrameRate137" -> Leave(m, f)
    [] label = "ProcessIncomingFrameRate143" ->
         Leave([m EXCEPT !.incoming_frame_rate_ =
                            ProcessIncomingFrameRate(m.incoming_frame_times_,
                                                     @, f.now)], f)

\* A thread calls public method op with arguments a (enable for
\* EnableFrameDropper) and is at the method's first statement.
Invoke(t, op, a, enable) ==
  /\ pc[t] = "idle"
  /\ pc' = [pc EXCEPT ![t] = Entry(op)]
  /\ frame' = [frame EXCEPT ![t] =
                 [NoFrame EXCEPT !.op = op, !.args = a, !.enable = enable,
                                 !.callee = op, !.stack = <<"return">>]]
  /\ UNCHANGED <<committed, crit_sect_, mem>>

\* rtc::CritScope lock(&crit_sect_): wait until no thread holds the lock,
\* take it, and go on to the next statement.
Acquire(t) ==
  /\ pc[t] \in LockSites
  /\ Locked(LockSiteOf(pc[t])) => crit_sect_ = {}
  /\ crit_sect_' = IF Locked(LockSiteOf(pc[t]))
                     THEN crit_sect_ \cup {t}
                     ELSE crit_sect_
  /\ pc' = [pc EXCEPT ![t] = AfterLock(pc[t])]
  /\ UNCHANGED <<committed, frame, mem>>

\* One statement of the method a thread is in.
Step(t) ==
  /\ pc[t] \notin ({"idle", "return"} \cup LockSites)
  /\ \E now \in ConcClockFrom(mem.clock) :
     \E drop \in DropDecisions(mem.dropper_enabled) :
       LET r == Exec(pc[t], mem, frame[t], now, drop)
       IN  /\ pc' = [pc EXCEPT ![t] = r.pc]
           /\ frame' = [frame EXCEPT ![t] = r.frame]
           /\ mem' = r.mem
  /\ UNCHANGED <<committed, crit_sect_>>

\* The public method returns: the CritScope goes out of scope and releases
\* the lock; the caller sees the members and the method's outcome.
Return(t) ==
  /\ pc[t] = "return"
  /\ crit_sect_' = crit_sect_ \ {t}
  /\ pc' = [pc EXCEPT ![t] = "idle"]
  /\ frame' = [frame EXCEPT ![t] = NoFrame]
  /\ clock' = mem.clock
  /\ max_bit_rate_' = mem.max_bit_rate_
  /\ user_frame_rate_' = mem.user_frame_rate_
  /\ video_target_bitrate_' = mem.video_target_bitrate_
  /\ incoming_frame_rate_' = mem.incoming_frame_rate_
  /\ incoming_frame_times_' = mem.incoming_frame_times_
  /\ dropper_enabled' = mem.dropper_enabled
  /\ arrivals' = mem.arrivals
  /\ targetSetBy' = mem.targetSetBy
  /\ calls' = frame[t].calls
  /\ lastOp' = frame[t].op
  /\ args' = IF frame[t].op = "EnableFrameDropper"
               THEN <<frame[t].enable>>
               ELSE frame[t].args
  /\ ret' = frame[t].ret
  /\ UNCHANGED mem

\* The calls of the capture/encode path.
CaptureInvoke(maxArrivals) ==
  \/ /\ Len(mem.arrivals) < maxArrivals
     /\ Invoke("capture", "DropFrame", << >>, FALSE)
  \/ \E n \in ConcEncodedLengths, ft \in ConcFrameTypes :
       Invoke("capture", "UpdateWithEncodedData", <<n, ft>>, FALSE)
  \/ Invoke("capture", "InputFrameRate", << >>, FALSE)

\* The calls of the network/control path.
ControlInvoke ==
  \/ Invoke("control", "Reset", << >>, FALSE)
  \/ \E m \in ConcMaxBitRates, tb \in ConcTargetBitrates, f \in FrameRates :
       Invoke("control", "SetEncodingData", <<m, tb, f>>, FALSE)
  \/ \E tb \in ConcTargetBitrates :
       Invoke("control", "SetTargetRates", <<tb>>, FALSE)

\* EnableFrameDropper, called from either path.
EnableInvoke ==
  \E t \in Threads, e \in BOOLEAN :
    Invoke(t, "EnableFrameDropper", << >>, e)

NextConc ==
  \/ CaptureInvoke(MaxConcArrivals)
  \/ ControlInvoke
  \/ EnableInvoke
  \/ \E t \in Threads : Acquire(t)
  \/ \E t \in Threads : Step(t)
  \/ \E t \in Threads : Return(t)

SpecConc == Init /\ [][NextConc]_vars

NextFairConc ==
  \/ CaptureInvoke(MaxFairArrivals)
  \/ ControlInvoke
  \/ EnableInvoke
  \/ \E t \in Threads : Acquire(t)
  \/ \E t \in Threads : Step(t)
  \/ \E t \in Threads : Return(t)

\* The two threads under fair scheduling: a running thread keeps running, and a
\* thread waiting for a lock that is free again and again gets it.  (Each of
\* these steps changes pc.)
FairSpecConc ==
  /\ Init
  /\ [][NextFairConc]_vars
  /\ \A t \in Threads :
       WF_pc(Step(t)) /\ WF_pc(Return(t)) /\ SF_pc(Acquire(t))

\* One whole public method, run alone with any arguments and clock readings.
AnyOperation ==
  \/ Reset
  \/ \E m \in MaxBitRates, tb \in TargetBitrates, f \in FrameRates :
       SetEncodingData(m, tb, f)
  \/ \E tb \in TargetBitrates : SetTargetRates(tb)
  \/ InputFrameRate
  \/ \E n \in EncodedLengths, ft \in FrameTypes : UpdateWithEncodedData(n, ft)
  \/ \E e \in BOOLEAN : EnableFrameDropper(e)
  \/ \E now \in ClockFrom(clock) : \E later \in ClockFrom(now) :
     \E drop \in DropDecisions(dropper_enabled) :
       DropFrameAt(now, later, drop)

\* ------------------------------------------------------- claim vocabulary
\* r is est rounded half-up: r <= est + 1/2 < r + 1, for est = <<n, d>>.
IsHalfUp(r, est) ==
  /\ 2 * r * est[2] <= 2 * est[1] + est[2]
  /\ 2 * est[1] + est[2] < 2 * (r + 1) * est[2]

\* The history is all sentinel.
HistoryEmpty == \A i \in Slots : incoming_frame_times_[i] = -1

\* The arrivals since construction/Reset came at one fixed interval T.
SteadyArrivals(T) ==
  /\ Len(arrivals) >= 2
  /\ \A i \in 1 .. (Len(arrivals) - 1) : arrivals[i] - arrivals[i + 1] = T

\* The state Reset is documented to produce.
ZeroedState ==
  /\ max_bit_rate_ = 0
  /\ video_target_bitrate_ = 0
  /\ user_frame_rate_ = <<0, 1>>
  /\ incoming_frame_rate_ = <<0, 1>>
  /\ HistoryEmpty

\* ------------------------------------------------------------------ claims
\* C1: SetTargetRates(t) returns min(t, max_bit_rate_) when max_bit_rate_ > 0
\* and t unchanged when max_bit_rate_ <= 0, and stores what it returns.
C1_SetTargetRatesCaps ==
  lastOp = "SetTargetRates" =>
    /\ ret = IF max_bit_rate_ > 0
               THEN (IF args[1] < max_bit_rate_ THEN args[1] ELSE max_bit_rate_)
               ELSE args[1]
    /\ video_target_bitrate_ = ret

C1_Witness ==
  /\ lastOp = "SetTargetRates"
  /\ max_bit_rate_ = 400000
  /\ args = <<600000>>
  /\ ret = 400000

\* C2 as stated: in every reachable state the stored target is at most
\* max_bit_rate_ whenever max_bit_rate_ > 0.
C2_TargetAtMostMax ==
  max_bit_rate_ > 0 => video_target_bitrate_ <= max_bit_rate_

\* C2 amended: the stored target is at most max_bit_rate_ whenever
\* max_bit_rate_ > 0 and the target was last written by SetTargetRates;
\* SetEncodingData stores its target argument uncapped.
C2_TargetAtMostMaxAfterSetTargetRates ==
  (max_bit_rate_ > 0 /\ targetSetBy = "SetTargetRates") =>
    video_target_bitrate_ <= max_bit_rate_

C2_Witness ==
  /\ targetSetBy = "SetTargetRates"
  /\ lastOp = "DropFrame"
  /\ max_bit_rate_ = 400000
  /\ video_target_bitrate_ = 400000

\* C3: after arrivals at a fixed interval T (0 < T < 2000, at least two
\* arrivals, any start time >= 0) since construction or Reset, InputFrameRate()
\* at the time of the last arrival returns round(1000 / T).
C3_SteadyRateIsRounded1000OverT ==
  (/\ lastOp = "InputFrameRate"
   /\ Len(arrivals) >= 2
   /\ clock = arrivals[1]
   /\ arrivals[1] - arrivals[2] > 0
   /\ arrivals[1] - arrivals[2] < 2000
   /\ SteadyArrivals(arrivals[1] - arrivals[2]))
    => IsHalfUp(ret, <<1000, arrivals[1] - arrivals[2]>>)

\* C4: when the estimate is non-zero and the newest recorded arrival is more
\* than 2000 ms old, the next arrival leaves the estimate at 0.
C4_ArrivalAfterGapZeroesEstimate ==
  [][(/\ lastOp' = "DropFrame"
      /\ Len(arrivals) >= 2
      /\ incoming_frame_rate_ # <<0, 1>>
      /\ arrivals' = <<args'[1]>> \o arrivals
      /\ args'[1] - arrivals[1] > 2000)
       => incoming_frame_rate_' = <<0, 1>>]_vars

\* C5: InputFrameRate() returns 0 when every recorded arrival other than the
\* newest is more than 2000 ms old, or fewer than two arrivals are recorded.
C5_StaleOrInsufficientReturnsZero ==
  (/\ lastOp = "InputFrameRate"
   /\ \A i \in 1 .. (kFrameCountHistorySize - 1) :
        \/ incoming_frame_times_[i] = -1
        \/ clock - incoming_frame_times_[i] > 2000)
    => ret = 0

\* C6: after k arrivals the history holds exactly the min(k, H) most recent
\* arrival times, newest first, and the sentinel in every other slot.
C6_HistoryHoldsMostRecentArrivals ==
  \A i \in Slots :
    incoming_frame_times_[i] =
      IF i < Len(arrivals) THEN arrivals[i + 1] ELSE -1

\* C7: Reset() can always run and leaves the zeroed state, having reset the
\* collaborator and called SetRates(0, 0) last; a second Reset() changes
\* nothing; InputFrameRate() called next returns 0.
C7_ResetIsIdempotentAndTotal ==
  /\ [](ENABLED Reset)
  /\ [](lastOp = "Reset" =>
          /\ ZeroedState
          /\ Len(calls) >= 2
          /\ calls[Len(calls) - 1] = [op |-> "Reset"]
          /\ calls[Len(calls)] =
               [op |-> "SetRates", kbps |-> <<0, 1>>, fps |-> <<0, 1>>]
          /\ \A j \in 1 .. Len(calls) : calls[j].op \in {"Reset", "SetRates"})
  /\ [][(lastOp = "Reset" /\ lastOp' = "Reset") =>
          /\ ZeroedState'
          /\ UNCHANGED <<max_bit_rate_, user_frame_rate_,
                         video_target_bitrate_, incoming_frame_rate_,
                         incoming_frame_times_, dropper_enabled, calls>>]_vars
  /\ [][(lastOp = "Reset" /\ lastOp' = "InputFrameRate") => ret' = 0]_vars

C7_Witness ==
  /\ lastOp = "Reset"
  /\ ZeroedState
  /\ clock = 2067
  /\ ~dropper_enabled

\* SetEncodingData(max, target, fps) stores its three arguments, resets the
\* collaborator and calls SetRates(target / 1000, fps), and leaves the history
\* and the estimate unchanged.
SetEncodingDataEffect ==
  lastOp' = "SetEncodingData" =>
    /\ incoming_frame_times_' = incoming_frame_times_
    /\ incoming_frame_rate_' = incoming_frame_rate_
    /\ max_bit_rate_' = args'[1]
    /\ video_target_bitrate_' = args'[2]
    /\ 1 * user_frame_rate_'[1] = args'[3] * user_frame_rate_'[2]
    /\ Len(calls') = 2
    /\ calls'[1] = [op |-> "Reset"]
    /\ calls'[2].op = "SetRates"
    /\ 1000 * calls'[2].kbps[1] = args'[2] * calls'[2].kbps[2]
    /\ 1 * calls'[2].fps[1] = args'[3] * calls'[2].fps[2]

\* Scanned at time now, the history has at least one usable entry after the
\* newest, and the newest timestamp is not later than the oldest used one.
RecomputedToZeroAt(times, now) ==
  LET n == IF \A j \in 1 .. (kFrameCountHistorySize - 2) :
                times[j] # -1 /\ now - times[j] <= 2000
             THEN kFrameCountHistorySize - 2
             ELSE (CHOOSE k \in 1 .. (kFrameCountHistorySize - 2) :
                     /\ ~(times[k] # -1 /\ now - times[k] <= 2000)
                     /\ \A j \in 1 .. (k - 1) :
                          times[j] # -1 /\ now - times[j] <= 2000) - 1
  IN  n >= 1 /\ times[0] - times[n] <= 0

\* C8 as stated: SetEncodingData has the effect above, and the history is set
\* to all-empty and the estimate to zero by no public operation but Reset.
C8_ZeroedOnlyByReset ==
  [][/\ SetEncodingDataEffect
     /\ (HistoryEmpty' /\ ~HistoryEmpty) => lastOp' = "Reset"
     /\ (incoming_frame_rate_' = <<0, 1>> /\ incoming_frame_rate_ # <<0, 1>>)
          => lastOp' = "Reset"]_vars

\* C8 amended: SetEncodingData has the effect above; only Reset empties the
\* history; the estimate is changed only by Reset, DropFrame and
\* InputFrameRate, and apart from Reset it becomes zero only when DropFrame or
\* InputFrameRate recompute it over entries whose newest timestamp is not
\* later than the oldest used one.
C8_SetEncodingDataKeepsHistory ==
  [][/\ SetEncodingDataEffect
     /\ (HistoryEmpty' /\ ~HistoryEmpty) => lastOp' = "Reset"
     /\ incoming_frame_rate_' # incoming_frame_rate_ =>
          lastOp' \in {"Reset", "DropFrame", "InputFrameRate"}
     /\ (/\ incoming_frame_rate_' = <<0, 1>>
         /\ incoming_frame_rate_ # <<0, 1>>
         /\ lastOp' # "Reset")
          => \/ /\ lastOp' = "InputFrameRate"
                /\ RecomputedToZeroAt(incoming_frame_times_', clock')
             \/ /\ lastOp' = "DropFrame"
                /\ \/ RecomputedToZeroAt(incoming_frame_times_', args'[1])
                   \/ RecomputedToZeroAt(incoming_frame_times_', clock')]_vars

\* After SetEncodingData(400000, ...) and arrivals at 33 and 66 (estimate
\* 1000/33), an arrival at 66 whose second clock reading is 2066 zeroes the
\* estimate: the only entry still in the window has the newest's timestamp.
C8_Witness ==
  /\ lastOp = "DropFrame"
  /\ max_bit_rate_ = 400000
  /\ args = <<66>>
  /\ clock = 2066
  /\ arrivals = <<66, 66, 33>>
  /\ incoming_frame_rate_ = <<0, 1>>

\* C9: DropFrame() records the arrival, recomputes the estimate, calls
\* Leak(estimate rounded half-up) and then DropFrame() once each, makes no
\* other collaborator call, and returns the collaborator's decision.
C9_DropFrameLeaksThenAsks ==
  lastOp = "DropFrame" =>
    /\ incoming_frame_times_[0] = args[1]
    /\ Len(calls) = 2
    /\ calls[1].op = "Leak"
    /\ IsHalfUp(calls[1].rate, incoming_frame_rate_)
    /\ calls[2].op = "DropFrame"
    /\ ret = calls[2].result

C9_Witness ==
  /\ lastOp = "DropFrame"
  /\ ret = TRUE
  /\ calls[1] = [op |-> "Leak", rate |-> 61]

\* C10: UpdateWithEncodedData makes no collaborator call for a zero length,
\* exactly one Fill(length, delta) for a positive length, returns VCM_OK and
\* leaves configuration, history and estimate unchanged.
C10_ZeroLengthIsNotFilled ==
  [][lastOp' = "UpdateWithEncodedData" =>
       /\ calls' = IF args'[1] = 0
                     THEN << >>
                     ELSE << [op |-> "Fill", size |-> args'[1],
                              delta |-> (args'[2] # "kVideoFrameKey")] >>
       /\ ret' = 0
       /\ UNCHANGED <<max_bit_rate_, user_frame_rate_, video_target_bitrate_,
                      incoming_frame_rate_, incoming_frame_times_>>]_vars

C10_Witness ==
  /\ lastOp = "UpdateWithEncodedData"
  /\ args[1] = 0
  /\ calls = << >>
  /\ incoming_frame_rate_ # <<0, 1>>

\* ----------------------------------------------- claim vocabulary (estimator)
\* Entry j is present and no more than win ms older than now.
EntryUsable(times, now, j, win) ==
  times[j] # -1 /\ now - times[j] <= win

\* The number of consecutive usable entries in slots 1 .. last.
UsableCount(times, now, last, win) ==
  LET lens == {c \in 0 .. last : \A j \in 1 .. c : EntryUsable(times, now, j, win)}
  IN  CHOOSE c \in lens : \A e \in lens : e <= c

\* est is the quotient n / d.
IsQuotient(est, n, d) == est[1] * d = n * est[2]

\* est is what count entries spanning diff ms give: count * 1000 / diff, or 0
\* when diff <= 0.
IsEstimateOf(est, count, diff) ==
  IF diff > 0 THEN IsQuotient(est, count * 1000, diff) ELSE est = <<0, 1>>

CapturePathOps ==
  {"DropFrame", "UpdateWithEncodedData", "InputFrameRate", "EnableFrameDropper"}

\* C11: a disabled collaborator never makes DropFrame() return true; the
\* enable flag follows the argument of EnableFrameDropper and no other method
\* changes it or calls Enable.
C11_DisabledNeverDrops ==
  /\ []((lastOp = "DropFrame" /\ ~dropper_enabled) => ret = FALSE)
  /\ [][/\ lastOp' = "EnableFrameDropper" =>
             /\ dropper_enabled' = args'[1]
             /\ calls' = << [op |-> "Enable", enable |-> args'[1]] >>
        /\ lastOp' # "EnableFrameDropper" =>
             /\ dropper_enabled' = dropper_enabled
             /\ \A j \in 1 .. Len(calls') : calls'[j].op # "Enable"]_vars

C11_Witness ==
  /\ lastOp = "DropFrame"
  /\ ~dropper_enabled
  /\ ret = FALSE
  /\ targetSetBy = "Reset"
  /\ incoming_frame_rate_ # <<0, 1>>

\* C15: SetTargetRates(t) calls only SetRates, once, with the capped target in
\* kbps and the estimate if it is non-zero, else user_frame_rate_; it changes
\* neither max_bit_rate_, user_frame_rate_, the history nor the estimate.
C15_SetTargetRatesProgramsRates ==
  [][lastOp' = "SetTargetRates" =>
       /\ Len(calls') = 1
       /\ calls'[1].op = "SetRates"
       /\ IsQuotient(calls'[1].kbps, video_target_bitrate_', 1000)
       /\ calls'[1].fps = IF incoming_frame_rate_ # <<0, 1>>
                            THEN incoming_frame_rate_
                            ELSE user_frame_rate_
       /\ UNCHANGED <<max_bit_rate_, user_frame_rate_, incoming_frame_rate_,
                      incoming_frame_times_>>]_vars

C15_Witness ==
  /\ lastOp = "SetTargetRates"
  /\ user_frame_rate_ = <<30, 1>>
  /\ incoming_frame_rate_ = <<2000, 33>>
  /\ calls = << [op |-> "SetRates", kbps |-> <<400, 1>>, fps |-> <<2000, 33>>] >>

\* C17 as stated: an entry exactly 2000 ms before now stops the scan, so with
\* such an entry in slot 1 nothing is counted and the estimate keeps its value.
C17_BoundaryEntryExcluded ==
  [][(/\ lastOp' = "InputFrameRate"
      /\ incoming_frame_times_[1] # -1
      /\ clock' - incoming_frame_times_[1] = 2000)
       => incoming_frame_rate_' = incoming_frame_rate_]_vars

\* C17 amended: an entry exactly 2000 ms before now is used; the scan stops at
\* the first entry that is more than 2000 ms old (or missing).
C17_BoundaryEntryIncluded ==
  (/\ lastOp \in {"InputFrameRate", "DropFrame"}
   /\ incoming_frame_times_[1] # -1
   /\ clock - incoming_frame_times_[1] = 2000)
    => LET c == UsableCount(incoming_frame_times_, clock,
                            kFrameCountHistorySize - 2, 2000)
       IN  /\ c >= 1
           /\ IsEstimateOf(incoming_frame_rate_, c,
                           incoming_frame_times_[0] - incoming_frame_times_[c])

C17_Witness ==
  /\ lastOp = "InputFrameRate"
  /\ clock = 2066
  /\ incoming_frame_times_[0] = 2066
  /\ incoming_frame_times_[1] = 66
  /\ incoming_frame_rate_ = <<1, 2>>
  /\ ret = 1

\* C19: InputFrameRate() leaves the history and the configuration unchanged
\* and calls nothing; a second call at the same clock value returns the same.
C19_InputFrameRateRecordsNothing ==
  /\ [][lastOp' = "InputFrameRate" =>
          /\ UNCHANGED <<incoming_frame_times_, max_bit_rate_,
                         video_target_bitrate_, user_frame_rate_,
                         dropper_enabled>>
          /\ calls' = << >>]_vars
  /\ [][(lastOp = "InputFrameRate" /\ lastOp' = "InputFrameRate"
         /\ clock' = clock) => ret' = ret]_vars

C19_Witness ==
  /\ lastOp = "InputFrameRate"
  /\ clock = 2066
  /\ incoming_frame_times_[0] = 66
  /\ incoming_frame_times_[1] = 66
  /\ incoming_frame_times_[2] = 33
  /\ incoming_frame_rate_ = <<0, 1>>

\* C20: max_bit_rate_ is a function of the control-path calls alone (the
\* argument of the last SetEncodingData, 0 after Reset, untouched by the
\* capture path), and SetTargetRates(t) returns a function of t and
\* max_bit_rate_ alone; the frame rate it passes to SetRates may be the
\* capture-path estimate.
C20_ReturnDependsOnControlPathOnly ==
  [][/\ lastOp' \in CapturePathOps =>
          UNCHANGED <<max_bit_rate_, video_target_bitrate_>>
     /\ lastOp' = "SetEncodingData" => max_bit_rate_' = args'[1]
     /\ lastOp' = "Reset" => max_bit_rate_' = 0
     /\ lastOp' = "SetTargetRates" =>
          /\ max_bit_rate_' = max_bit_rate_
          /\ ret' = IF max_bit_rate_ > 0 /\ args'[1] > max_bit_rate_
                      THEN max_bit_rate_
                      ELSE args'[1]]_vars

C20_Witness ==
  /\ lastOp = "SetTargetRates"
  /\ args = <<600000>>
  /\ ret = 400000
  /\ calls[1].fps = <<1000, 33>>
  /\ user_frame_rate_ = <<30, 1>>

\* C14: InputFrameRate() returns the estimate rounded half-up, never negative
\* and never above 1000 * (kFrameCountHistorySize - 2) = 88000, the estimate
\* of a full scan spanning 1 ms, which is far below 2^32 - 1.
C14_InputFrameRateIsRoundedAndBounded ==
  lastOp = "InputFrameRate" =>
    /\ IsHalfUp(ret, incoming_frame_rate_)
    /\ ret >= 0
    /\ ret <= 1000 * (kFrameCountHistorySize - 2)

C14_Witness ==
  /\ lastOp = "InputFrameRate"
  /\ incoming_frame_times_[0] - incoming_frame_times_[kFrameCountHistorySize - 2] = 1
  /\ ret = 1000 * (kFrameCountHistorySize - 2)

\* C16: after an arrival at now, with count the number of consecutive entries
\* after the newest that are present and within 2000 ms of now and oldestUsed
\* the last of them: the estimate is count * 1000 / diff if diff > 0, it is 0 if
\* diff <= 0, and it keeps its value if count = 0.
C16_EstimateFromAllUsableEntries ==
  [][(/\ lastOp' = "DropFrame"
      /\ arrivals' = <<args'[1]>> \o arrivals
      /\ clock' = args'[1])
       => LET c == UsableCount(incoming_frame_times_', args'[1],
                               kFrameCountHistorySize - 1, 2000)
          IN  IF c >= 1
                THEN IsEstimateOf(incoming_frame_rate_', c,
                                  incoming_frame_times_'[0] -
                                    incoming_frame_times_'[c])
                ELSE incoming_frame_rate_' = incoming_frame_rate_]_vars

\* C18: the recorded timestamps are a prefix of the history, non-increasing
\* from slot 0 on, and every slot after the prefix holds the sentinel.
C18_HistoryIsSortedPrefix ==
  \E k \in 0 .. kFrameCountHistorySize :
    /\ \A i \in Slots : (i < k) <=> (incoming_frame_times_[i] # -1)
    /\ \A i \in Slots :
         (i + 1 < k) => incoming_frame_times_[i] >= incoming_frame_times_[i + 1]

C18_Witness ==
  /\ incoming_frame_times_[kFrameCountHistorySize - 1] = 5
  /\ incoming_frame_times_[1] = 6
  /\ incoming_frame_times_[0] = 2007
  /\ Len(arrivals) = MaxFill

\* C12: with the capture path and the control path calling concurrently,
\* every statement of a method body runs while its thread holds the lock, at
\* most one thread holds the lock, and every return of a public method leaves
\* the members, the collaborator calls and the returned value exactly as that
\* method run alone would leave them from the state at the previous return:
\* the concurrent run is a serial order of whole methods.
C12_LockedAndSerializable ==
  /\ [](\A t \in Threads : InBody(t) => t \in crit_sect_)
  /\ [](Cardinality(crit_sect_) <= 1)
  /\ [][AnyOperation]_committed

\* The control path is in the middle of Reset, the history already cleared
\* but not yet the estimate, while the capture path waits to record a frame.
C12_Witness ==
  /\ crit_sect_ = {"control"}
  /\ pc["control"] = "Reset38"
  /\ pc["capture"] = "DropFrame118"
  /\ Len(arrivals) = MaxConcArrivals
  /\ mem.arrivals = << >>
  /\ mem.incoming_frame_rate_ # Zero

\* C13: a thread holding the lock calls only methods that do not take the
\* lock, a thread that has returned does not hold it, a thread inside a method
\* can always take its next step, a waiting thread waits for the lock alone,
\* and under fair scheduling every invoked method returns.
C13_NoNestedLockAndEveryCallReturns ==
  /\ [](\A t \in Threads :
          (t \in crit_sect_ /\ pc[t] \in CallSites) => ~Locked(Callee(pc[t])))
  /\ [](\A t \in Threads : pc[t] = "idle" => t \notin crit_sect_)
  /\ [](\A t \in Threads : InBody(t) => ENABLED (Step(t) \/ Return(t)))
  /\ [](\A t \in Threads :
          pc[t] \in LockSites => (ENABLED Acquire(t) <=> crit_sect_ = {}))
  /\ [](\A t \in Threads :
          pc[t] = "UpdateWithEncodedData103" => ENABLED Step(t))
  /\ \A t \in Threads : (pc[t] # "idle") ~> (pc[t] = "idle")

\* The control path, inside Reset with the lock held, runs the private
\* SetEncodingDataInternal while the capture path waits for the lock.
C13_Witness ==
  /\ crit_sect_ = {"control"}
  /\ frame["control"].op = "Reset"
  /\ pc["control"] = "SetEncodingDataInternal58"
  /\ frame["control"].stack = <<"Reset37", "return">>
  /\ pc["capture"] = "InputFrameRate90"

====
